---- MODULE Spec2Model ----
(***************************************************************************)
(* Model of all_agents_tutorials/simple_question_answering_agent.ipynb:   *)
(* the environment set-up cell, the ChatOpenAI client configuration, the   *)
(* PromptTemplate, the chain `prompt | llm` and get_answer.                *)
(*                                                                         *)
(* Strings are sequences of symbols.  A symbol is either one of the fixed  *)
(* pieces of the template text or a piece of caller / service text.        *)
(* Python's None is the string "None"; credentials are plain strings.      *)
(***************************************************************************)
EXTENDS Naturals, Sequences, FiniteSets

\* ------------------------------------------------------------- bounds
MaxCalls == 2       \* get_answer calls started in one run of the kernel
NumThreads == 2     \* callers in the concurrent specification

\* ------------------------------------------------------------- strings
France == "What is the capital of France?"
Paris == "Paris."

\* questions callers pass: empty, whitespace only, plain, with blanks around
Questions == {<<>>, <<" ">>, <<France>>, <<" ", France, " ">>}
\* contents the service answers with
Contents == {<<>>, <<Paris>>, <<" ", Paris, " ">>}

RECURSIVE LStrip(_)
LStrip(s) == IF s # <<>> /\ Head(s) = " " THEN LStrip(Tail(s)) ELSE s

RECURSIVE RStrip(_)
RStrip(s) ==
    IF s # <<>> /\ s[Len(s)] = " " THEN RStrip(SubSeq(s, 1, Len(s) - 1)) ELSE s

\* str.strip(): what a trimming implementation would apply
Strip(s) == RStrip(LStrip(s))

\* ------------------------------------------------------------- environment
None == "None"
Credentials == {None, "", "sk-key"}

\* load_dotenv(): a variable of the .env file is set in os.environ unless
\* os.environ already has it (override=False)
load_dotenv(environ, dotenvFile) == IF environ # None THEN environ ELSE dotenvFile

\* os.environ[k] = v raises TypeError when v is None (os.getenv found nothing)
EnvAssignNeverRaises(v) == FALSE
EnvAssignRaises(v) == v = None

\* ------------------------------------------------------------- client
Model == "gpt-4o-mini"
MaxTokens == 1000
Temperature == 0

ChatOpenAI == [model |-> Model, max_tokens |-> MaxTokens, temperature |-> Temperature]
Unbound == [model |-> None, max_tokens |-> 0, temperature |-> 0]

\* ------------------------------------------------------------- template
Lit(text) == [field |-> None, text |-> text]
Field(name) == [field |-> name, text |-> ""]

\* the template string, as str.format parses it: literal text and one field
template ==
    << Lit("\n"),
       Lit("You are a helpful AI assistant. Your task is to answer the user's question to the best of your ability."),
       Lit("\n\n"),
       Lit("User's question: "),
       Field("question"),
       Lit("\n\n"),
       Lit("Please provide a clear and concise answer:"),
       Lit("\n") >>

\* the template's text before and after the {question} field
FramingBefore ==
    << "\n",
       "You are a helpful AI assistant. Your task is to answer the user's question to the best of your ability.",
       "\n\n",
       "User's question: " >>
FramingAfter ==
    << "\n\n", "Please provide a clear and concise answer:", "\n" >>

\* the value put in place of a field
SubstituteQuoted(vars, name) == <<"'">> \o vars[name] \o <<"'">>
Substitute(vars, name) == vars[name]

RECURSIVE Format(_, _)
Format(tpl, vars) ==
    IF tpl = <<>> THEN <<>>
    ELSE (IF Head(tpl).field = None
             THEN <<Head(tpl).text>>
             ELSE Substitute(vars, Head(tpl).field))
         \o Format(Tail(tpl), vars)

\* prompt = PromptTemplate(template=template, input_variables=["question"])
\* prompt.invoke(input_variables) formats the template with them
prompt(input_variables) == Format(template, input_variables)

\* input_variables = {"question": question}
InputVariablesStripped(question) == [question |-> Strip(question)]
InputVariables(question) == [question |-> question]

\* ------------------------------------------------------------- state
VARIABLES
    environ,          \* os.environ["OPENAI_API_KEY"], None when unset
    phase,            \* how far the set-up cells have run
    error,            \* the error that ended set-up, None when there is none
    llm,              \* the client configuration bound to `llm`
    threads,          \* the callers of get_answer
    pc,               \* where each caller is inside get_answer
    asking,           \* the question each caller passed to its last call
    input_variables,  \* get_answer's local, per frame
    response,         \* get_answer's local, per frame
    requests,         \* each caller's completion requests awaiting the service
    invocations,      \* times the client was invoked for each caller's last call
    wire,             \* what the client gave back for each caller's last call
    answer,           \* what each caller's last call gave the caller
    sent,             \* completion requests the client was asked for, in all
    started,          \* calls of get_answer started, in all
    failures,         \* calls of get_answer that ended in an exception
    rendered          \* the last stand-alone use of the prompt template

vars == << environ, phase, error, llm, threads, pc, asking, input_variables,
           response, requests, invocations, wire, answer, sent, started,
           failures, rendered >>

Threads == 1..NumThreads

\* the frame that holds the locals of caller p's call of get_answer
FrameShared(p) == 1
Frame(p) == p

\* ------------------------------------------------------------- responses
\* what the client gives back: a message, an object without .content, or an
\* exception
AIMessage(c) == [received |-> TRUE, has_content |-> TRUE, content |-> c, raised |-> None]
Malformed == [received |-> TRUE, has_content |-> FALSE, content |-> <<>>, raised |-> None]
Fault(e) == [received |-> FALSE, has_content |-> FALSE, content |-> <<>>, raised |-> e]
NoResponse == Fault(None)

Responses == {AIMessage(c) : c \in Contents} \cup {Malformed}

\* whether <object>.content can be read
HasContentLenient(resp) == TRUE
HasContent(resp) == resp.has_content

\* <object>.content
ContentStripped(resp) == Strip(resp.content)
Content(resp) == resp.content

\* one completion request: the prompt and the client's configuration
RequestDefaults(text, cfg) ==
    [prompt |-> text, model |-> cfg.model, max_tokens |-> cfg.max_tokens,
     temperature |-> 1]
Request(text, cfg) ==
    [prompt |-> text, model |-> cfg.model, max_tokens |-> cfg.max_tokens,
     temperature |-> cfg.temperature]

\* qa_chain.invoke calls llm.invoke once
IssueTwice(reqs, r) == Append(Append(reqs, r), r)
Issue(reqs, r) == Append(reqs, r)

\* what the caller of get_answer gets: a value, or an exception
NoAnswer == [returned |-> FALSE, error |-> None, value |-> <<>>]
Returned(v) == [returned |-> TRUE, error |-> None, value |-> v]
Swallowed(e) == [returned |-> TRUE, error |-> None, value |-> <<>>]
Raised(e) == [returned |-> FALSE, error |-> e, value |-> <<>>]

\* the locals of a frame before get_answer has assigned them, and after the
\* frame is gone
NoLocals == [question |-> <<>>]

\* where a caller is once an exception has left get_answer
Wedged == "failed"
AfterRaise == "idle"

\* the service as a caller sees it: configured between calls, in flight
\* while get_answer runs
ServiceState(p) ==
    IF pc[p] = "idle" THEN "configured"
    ELSE IF pc[p] \in {"invoke", "waiting", "return"} THEN "in-flight"
    ELSE pc[p]

\* ------------------------------------------------------------- set-up
InitCommon ==
    /\ environ \in Credentials
    /\ phase = "start"
    /\ error = None
    /\ llm = Unbound
    /\ pc = [p \in Threads |-> "idle"]
    /\ asking = [p \in Threads |-> <<>>]
    /\ input_variables = [f \in Threads |-> NoLocals]
    /\ response = [f \in Threads |-> <<>>]
    /\ requests = [p \in Threads |-> <<>>]
    /\ invocations = [p \in Threads |-> 0]
    /\ wire = [p \in Threads |-> NoResponse]
    /\ answer = [p \in Threads |-> NoAnswer]
    /\ sent = 0
    /\ started = 0
    /\ failures = 0
    /\ rendered = [done |-> FALSE, question |-> <<>>, text |-> <<>>]

\* the notebook's cells, run by one caller
Init == InitCommon /\ threads = {1}

\* get_answer called from several threads
InitConc == InitCommon /\ threads = Threads

callState == << pc, asking, input_variables, response, requests, invocations,
                wire, answer, sent, started, failures >>

\* load_dotenv(); os.environ["OPENAI_API_KEY"] = os.getenv('OPENAI_API_KEY')
LoadEnv ==
    /\ phase = "start"
    /\ \E dotenvFile \in Credentials :
         LET v == load_dotenv(environ, dotenvFile) IN
         /\ environ' = v
         /\ IF EnvAssignRaises(v)
               THEN phase' = "failed" /\ error' = "ConfigurationError"
               ELSE phase' = "env" /\ error' = error
    /\ UNCHANGED << llm, threads, callState, rendered >>

\* llm = ChatOpenAI(model="gpt-4o-mini", max_tokens=1000, temperature=0)
NewLLM ==
    /\ phase = "env"
    /\ environ # None
    /\ llm' = ChatOpenAI
    /\ phase' = "llm"
    /\ UNCHANGED << environ, error, threads, callState, rendered >>

\* The constructor's check of the credential is the client library's: it
\* raises without a credential, and with an empty one it may raise or not.
NewLLMRejected ==
    /\ phase = "env"
    /\ environ \in {None, ""}
    /\ phase' = "failed"
    /\ error' = "ConfigurationError"
    /\ UNCHANGED << environ, llm, threads, callState, rendered >>

\* template = ...; prompt = PromptTemplate(...)
DefinePrompt ==
    /\ phase = "llm"
    /\ phase' = "prompt"
    /\ UNCHANGED << environ, error, llm, threads, callState, rendered >>

\* qa_chain = prompt | llm
BuildChain ==
    /\ phase = "prompt"
    /\ phase' = "ready"
    /\ UNCHANGED << environ, error, llm, threads, callState, rendered >>

\* the prompt template used on its own
RenderOnly(q) ==
    /\ phase \in {"prompt", "ready"}
    /\ rendered' = [done |-> TRUE, question |-> q,
                    text |-> prompt([question |-> q])]
    /\ UNCHANGED << environ, phase, error, llm, threads, callState >>

\* ------------------------------------------------------------- get_answer
\* answer = get_answer(question): input_variables = {"question": question}
Call(p, q) ==
    /\ phase = "ready"
    /\ pc[p] = "idle"
    /\ started < MaxCalls
    /\ started' = started + 1
    /\ asking' = [asking EXCEPT ![p] = q]
    /\ input_variables' = [input_variables EXCEPT ![Frame(p)] = InputVariables(q)]
    /\ invocations' = [invocations EXCEPT ![p] = 0]
    /\ wire' = [wire EXCEPT ![p] = NoResponse]
    /\ answer' = [answer EXCEPT ![p] = NoAnswer]
    /\ pc' = [pc EXCEPT ![p] = "invoke"]
    /\ UNCHANGED << environ, phase, error, llm, threads, response, requests,
                    sent, failures, rendered >>

\* qa_chain.invoke(input_variables): the prompt is formatted and handed to
\* the client, which is asked for one completion
Invoke(p) ==
    /\ pc[p] = "invoke"
    /\ LET issued == Issue(requests[p],
                           Request(prompt(input_variables[Frame(p)]), llm))
           n == Len(issued) - Len(requests[p])
       IN /\ requests' = [requests EXCEPT ![p] = issued]
          /\ invocations' = [invocations EXCEPT ![p] = @ + n]
          /\ sent' = sent + n
    /\ pc' = [pc EXCEPT ![p] = "waiting"]
    /\ UNCHANGED << environ, phase, error, llm, threads, asking, input_variables,
                    response, wire, answer, started, failures, rendered >>

\* the client returns a message: response = <message>.content
ReceiveMessage(p, resp) ==
    /\ pc[p] = "waiting"
    /\ HasContent(resp)
    /\ requests' = [requests EXCEPT ![p] = Tail(@)]
    /\ wire' = [wire EXCEPT ![p] = resp]
    /\ response' = [response EXCEPT ![Frame(p)] = Content(resp)]
    /\ pc' = [pc EXCEPT ![p] = "return"]
    /\ UNCHANGED << environ, phase, error, llm, threads, asking, input_variables,
                    invocations, answer, sent, started, failures, rendered >>

\* the client returns an object without .content: reading .content raises
ReceiveMalformed(p, resp) ==
    /\ pc[p] = "waiting"
    /\ ~HasContent(resp)
    /\ requests' = [requests EXCEPT ![p] = Tail(@)]
    /\ wire' = [wire EXCEPT ![p] = resp]
    /\ answer' = [answer EXCEPT ![p] = Raised("ResponseShapeError")]
    /\ pc' = [pc EXCEPT ![p] = AfterRaise]
    /\ input_variables' = [input_variables EXCEPT ![Frame(p)] = NoLocals]
    /\ response' = [response EXCEPT ![Frame(p)] = <<>>]
    /\ failures' = failures + 1
    /\ UNCHANGED << environ, phase, error, llm, threads, asking, invocations,
                    sent, started, rendered >>

\* the client raises: the network call could not complete, or the service
\* rejected the request
ClientRaises(p, e) ==
    /\ pc[p] = "waiting"
    /\ requests' = [requests EXCEPT ![p] = Tail(@)]
    /\ wire' = [wire EXCEPT ![p] = Fault(e)]
    /\ answer' = [answer EXCEPT ![p] = Raised(e)]
    /\ pc' = [pc EXCEPT ![p] = AfterRaise]
    /\ input_variables' = [input_variables EXCEPT ![Frame(p)] = NoLocals]
    /\ response' = [response EXCEPT ![Frame(p)] = <<>>]
    /\ failures' = failures + 1
    /\ UNCHANGED << environ, phase, error, llm, threads, asking, invocations,
                    sent, started, rendered >>

TransportFault(p) == ClientRaises(p, "TransportError")
ServiceFault(p) == ClientRaises(p, "ServiceError")

\* return response
Return(p) ==
    /\ pc[p] = "return"
    /\ answer' = [answer EXCEPT ![p] = Returned(response[Frame(p)])]
    /\ pc' = [pc EXCEPT ![p] = "idle"]
    /\ input_variables' = [input_variables EXCEPT ![Frame(p)] = NoLocals]
    /\ response' = [response EXCEPT ![Frame(p)] = <<>>]
    /\ UNCHANGED << environ, phase, error, llm, threads, asking, requests,
                    invocations, wire, sent, started, failures, rendered >>

SetUp ==
    \/ LoadEnv
    \/ NewLLM
    \/ NewLLMRejected
    \/ DefinePrompt
    \/ BuildChain

Ask ==
    \/ \E p \in threads, q \in Questions : Call(p, q)
    \/ \E p \in threads : Invoke(p)
    \/ \E p \in threads, resp \in Responses : ReceiveMessage(p, resp)
    \/ \E p \in threads, resp \in Responses : ReceiveMalformed(p, resp)
    \/ \E p \in threads : TransportFault(p)
    \/ \E p \in threads : ServiceFault(p)
    \/ \E p \in threads : Return(p)

\* the notebook: set-up, the template on its own, and calls of get_answer
Next ==
    \/ SetUp
    \/ \E q \in Questions : RenderOnly(q)
    \/ Ask

\* set-up, then calls of get_answer from several threads
NextConc ==
    \/ SetUp
    \/ Ask

Spec == Init /\ [][Next]_vars
SpecConc == InitConc /\ [][NextConc]_vars

\* ------------------------------------------------------------- properties
\* the answer a caller must get, given what the client gave back to it
ExpectedAnswer(w) ==
    IF w.raised # None
      THEN [returned |-> FALSE, error |-> w.raised, value |-> <<>>]
    ELSE IF w.has_content
      THEN [returned |-> TRUE, error |-> None, value |-> w.content]
    ELSE [returned |-> FALSE, error |-> "ResponseShapeError", value |-> <<>>]

Unanswered == [returned |-> FALSE, error |-> None, value |-> <<>>]

\* p's call has ended, with a value or with an exception
Ended(p) == pc[p] # "invoke" /\ pc[p] # "waiting" /\ pc[p] # "return"
                /\ (answer[p] # Unanswered \/ wire[p] # NoResponse)

\* C1: every call of get_answer asks the client for exactly one completion,
\* whatever the client then does; using the prompt template on its own asks
\* for none; once n calls have ended, n requests have been made.
C1_OneRequestPerCall ==
    /\ sent = started - Cardinality({p \in threads : pc[p] = "invoke"})
    /\ started = 0 => sent = 0
    /\ \A p \in threads :
         /\ pc[p] = "invoke" => invocations[p] = 0
         /\ pc[p] \in {"waiting", "return"} => invocations[p] = 1
         /\ Ended(p) => invocations[p] = 1
         /\ Len(requests[p]) = IF pc[p] = "waiting" THEN 1 ELSE 0

C1_Witness ==
    /\ rendered.done
    /\ started = 2 /\ sent = 2 /\ failures = 1
    /\ pc[1] = "idle" /\ answer[1].returned

\* C2: when the client raises a transport fault, get_answer raises it to the
\* caller, returns no value, and has invoked the client once: no retry.
C2_TransportFaultPropagates ==
    \A p \in threads :
      wire[p].raised = "TransportError" =>
        /\ answer[p] = [returned |-> FALSE, error |-> "TransportError", value |-> <<>>]
        /\ invocations[p] = 1
        /\ requests[p] = <<>>

C2_Witness ==
    /\ wire[1].raised = "TransportError"
    /\ answer[1].error = "TransportError"
    /\ invocations[1] = 1 /\ sent = started

\* C3: when the client gives back an object without the content field,
\* get_answer raises ResponseShapeError and returns nothing, not even an
\* empty string.
C3_MalformedResponseRaises ==
    \A p \in threads :
      (wire[p].received /\ ~wire[p].has_content) =>
        /\ ~answer[p].returned
        /\ answer[p].error = "ResponseShapeError"
        /\ pc[p] # "return"

C3_Witness ==
    /\ wire[1].received /\ ~wire[1].has_content
    /\ answer[1].error = "ResponseShapeError"

\* C4, as claimed: with the credential absent or empty once the environment
\* cell has run, the client is never constructed and no call of get_answer
\* starts and no request is made.
C4_AbsentOrEmptyCredentialFails ==
    (phase # "start" /\ environ \in {None, ""}) =>
        /\ phase \in {"env", "failed"}
        /\ started = 0
        /\ sent = 0

\* C4, amended: with the credential absent once load_dotenv has run, the
\* environment cell fails with ConfigurationError before the client is
\* constructed, and no call of get_answer starts and no request is made.
C4_AbsentCredentialFailsSetUp ==
    (phase # "start" /\ environ = None) =>
        /\ phase = "failed"
        /\ error = "ConfigurationError"
        /\ llm.model = None
        /\ started = 0
        /\ sent = 0

C4_Witness ==
    /\ environ = None
    /\ phase = "failed"
    /\ error = "ConfigurationError"

\* C5: get_answer returns the content of the client's message as it is: not
\* trimmed, not checked for emptiness.
C5_ContentReturnedVerbatim ==
    \A p \in threads :
      (pc[p] = "idle" /\ wire[p].received /\ wire[p].has_content) =>
        answer[p] = [returned |-> TRUE, error |-> None, value |-> wire[p].content]

C5_Witness ==
    /\ asking[1] = <<France>>
    /\ pc[1] = "idle"
    /\ wire[1].content = <<Paris>>
    /\ answer[1].returned /\ answer[1].value = <<Paris>>

\* C6: the rendered prompt is the fixed framing text with the question in the
\* place of the field, the same framing for every question (so one question
\* always renders to one text), and rendering is possible for every question.
C6_RenderFillsTheSlot ==
    /\ rendered.done =>
         rendered.text = FramingBefore \o rendered.question \o FramingAfter
    /\ phase \in {"prompt", "ready"} =>
         \A q \in Questions : ENABLED RenderOnly(q)

C6_Witness ==
    /\ rendered.done
    /\ rendered.question = <<" ", France, " ">>
    /\ Len(rendered.text) = 10

\* C7: every request carries the prompt rendered from the question of the
\* call that made it, and the configuration fixed at construction, which no
\* call changes.
C7_RequestsCarryPromptAndConfig ==
    /\ phase \in {"llm", "prompt", "ready"} =>
         llm = [model |-> "gpt-4o-mini", max_tokens |-> 1000, temperature |-> 0]
    /\ \A p \in threads : \A i \in 1..Len(requests[p]) :
         requests[p][i] = [prompt |-> prompt([question |-> asking[p]]),
                           model |-> "gpt-4o-mini", max_tokens |-> 1000,
                           temperature |-> 0]

C7_Witness ==
    /\ failures = 1 /\ started = 2
    /\ Len(requests[1]) = 1
    /\ asking[1] = <<France>>

\* C8: a caller sees the service configured or in flight and nothing else:
\* in flight from the start of a call until it ends, configured again once
\* it has ended with a value or with any exception, ready for the next call,
\* whose result is decided by what the client gives back to that call.
C8_ConfiguredOrInFlight ==
    \A p \in threads :
      /\ ServiceState(p) \in {"configured", "in-flight"}
      /\ ServiceState(p) = "in-flight" =>
           answer[p] = Unanswered /\ pc[p] \in {"invoke", "waiting", "return"}
      /\ (answer[p] # Unanswered \/ wire[p].raised # None) =>
           ServiceState(p) = "configured"
      /\ (ServiceState(p) = "configured" /\ answer[p] # Unanswered) =>
           answer[p] = ExpectedAnswer(wire[p])
      /\ (phase = "ready" /\ ServiceState(p) # "in-flight" /\ started < MaxCalls) =>
           \A q \in Questions : ENABLED Call(p, q)

C8_Witness ==
    /\ failures = 1 /\ started = 2
    /\ ServiceState(1) = "configured"
    /\ answer[1].returned

\* C9: calls of get_answer that overlap do not disturb each other: each has
\* at most one request out, made from its own question, and ends with what
\* the client gave back to it.
C9_ConcurrentCallsIndependent ==
    \A p \in threads :
      /\ Len(requests[p]) <= 1
      /\ \A i \in 1..Len(requests[p]) :
           requests[p][i].prompt = FramingBefore \o asking[p] \o FramingAfter
      /\ pc[p] \in {"waiting", "return"} => invocations[p] = 1
      /\ (pc[p] = "idle" /\ (answer[p] # Unanswered \/ wire[p] # NoResponse)) =>
           answer[p] = ExpectedAnswer(wire[p])

C9_Witness ==
    /\ pc[1] = "return" /\ pc[2] = "return"
    /\ asking[1] = <<France>> /\ asking[2] = <<" ">>
    /\ response[1] = <<Paris>> /\ response[2] = <<>>
    /\ sent = 2

\* C10: an empty or blank question is not rejected and not trimmed: the call
\* starts, the request carries the prompt with the question as it was given,
\* and the call ends with what the client gave back.
C10_BlankQuestionPassesThrough ==
    \A p \in threads :
      /\ (phase = "ready" /\ pc[p] = "idle" /\ started < MaxCalls) =>
           ENABLED Call(p, <<>>) /\ ENABLED Call(p, <<" ">>)
      /\ Strip(asking[p]) = <<>> =>
           /\ pc[p] = "invoke" => input_variables[p] = [question |-> asking[p]]
           /\ \A i \in 1..Len(requests[p]) :
                requests[p][i].prompt = FramingBefore \o asking[p] \o FramingAfter
           /\ pc[p] = "waiting" => Len(requests[p]) = 1
           /\ (pc[p] = "idle" /\ wire[p].received /\ wire[p].has_content) =>
                answer[p].returned /\ answer[p].value = wire[p].content

C10_Witness ==
    /\ asking[1] = <<" ">>
    /\ pc[1] = "idle"
    /\ invocations[1] = 1
    /\ answer[1].returned /\ answer[1].value = <<Paris>>

====
